---- MODULE Spec2Model ----
(***************************************************************************)
(* django-positions: PositionField (src/django_positions_2/fields.py).     *)
(*                                                                         *)
(* The store is the table of rows of one model that has a PositionField    *)
(* with a one-field collection and an auto_now field.  A handle is an      *)
(* in-memory model instance.  A save is three steps: pre_save (the field   *)
(* resolves the position), the host's write of the row, and the post_save  *)
(* signal (update_on_save).  A delete is three steps as well: pre_delete   *)
(* (prepare_delete), the host's removal of the row, and post_delete        *)
(* (update_on_delete).                                                     *)
(***************************************************************************)
EXTENDS Integers, FiniteSets, TLC

VARIABLES
    store,      \* pk -> row: [exists, coll, pos]
    handle,     \* handle -> in-memory instance and the step of its operation
    self_collection_changed,    \* PositionField._collection_changed (on the field)
    nextpk,     \* the next primary key the store hands out
    stamped,    \* rows whose auto_now fields the field stamped in this operation
    issued,     \* bulk updates the field issued in this operation
    pre,        \* the store when the running operation started (history)
    op          \* the instance as it was when the running operation started (history)

vars == <<store, handle, self_collection_changed, nextpk, stamped, issued, pre, op>>

\* ------------------------------------------------------------------ bounds
MaxItems == 3
NumColls == 2
NumHandles == 2
ResolveMax == 5

\* --------------------------------------------------------------- constants
None == -99
Default == -1

Pks == 1..MaxItems
Colls == 1..NumColls
Handles == 1..NumHandles
\* Requests reach past both ends of the largest collection (MaxItems members)
Requests == (0 - MaxItems - 1)..MaxItems

\* History of an instance's accessor: the last write since the cache was last
\* set by a save ("first": the write of construction), the value written and
\* the cached position before it
NoAcc == [kind |-> "none", v |-> None, cur |-> None]

\* Two more history fields of an instance in a save: asked, the position it
\* asked for when the save started, and decided, the collection_changed its
\* own pre_save computed.  And one of an instance in a delete: sib, the
\* sibling prepare_delete remembered, kept after update_on_delete reset it.

NoRow == [exists |-> FALSE, coll |-> None, pos |-> None]
NoHandle ==
    [pc |-> "none", pk |-> None, coll |-> None, cur |-> None, upd |-> None,
     hasCache |-> FALSE, ret |-> None, ins |-> FALSE, created |-> FALSE,
     nsp |-> None, afterSave |-> FALSE, acc |-> NoAcc,
     asked |-> None, decided |-> "none", sib |-> None]
NoOp == [kind |-> "none", h |-> None, pk |-> None, coll |-> None,
         cur |-> None, upd |-> None, afterSave |-> FALSE]

\* ------------------------------------------------------------------- store
\* get_collection(instance): the rows whose collection field equals the instance's
get_collection(s, k) == {i \in Pks : s[i].exists /\ s[i].coll = k}

\* QuerySet.count()
count(s, k) == Cardinality(get_collection(s, k))

\* Mutant of BulkUpdate: the update runs over every row, not the filtered ones
BulkUpdateAll(s, targets, delta) ==
    [i \in Pks |-> IF s[i].exists THEN [s[i] EXCEPT !.pos = @ + delta] ELSE s[i]]

\* QuerySet.update(position=F(position) + delta) over the rows in targets
BulkUpdate(s, targets, delta) ==
    [i \in Pks |-> IF i \in targets THEN [s[i] EXCEPT !.pos = @ + delta] ELSE s[i]]

\* ------------------------------------------------------------------- cache
\* __get__: the pending value when one is set, else the cached position
Get(H) == IF H.upd = None THEN H.cur ELSE H.upd

\* Mutant of Set: every write is taken for the first one
SetOverwrites(H, value) ==
    LET v == IF value = None THEN Default ELSE value
    IN [H EXCEPT !.cur = v, !.upd = None, !.hasCache = TRUE]

\* __set__: the first write on an instance (no cache attribute yet) sets the
\* cached position; every later write sets the pending value
Set(H, value) ==
    LET v == IF value = None THEN Default ELSE value
    IN IF H.hasCache
          THEN [H EXCEPT !.upd = v]
          ELSE [H EXCEPT !.cur = v, !.upd = None, !.hasCache = TRUE]

\* ------------------------------------------------------------- resolution
Abs(x) == IF x < 0 THEN 0 - x ELSE x

\* Mutant of ResolvePosition: a negative index counts from max_position
ResolvePositionNoWrap(updated, max_position) ==
    IF max_position >= updated /\ updated >= 0 THEN updated
    ELSE IF updated > max_position THEN max_position
    ELSE IF Abs(updated) <= max_position + 1 THEN max_position + updated
    ELSE 0

\* Mutant of ResolvePosition: an index past the end is clamped to the front
ResolvePositionClampFront(updated, max_position) ==
    IF max_position >= updated /\ updated >= 0 THEN updated
    ELSE IF updated > max_position THEN 0
    ELSE IF Abs(updated) <= max_position + 1 THEN max_position + 1 + updated
    ELSE 0

\* pre_save, the four-way branch on updated against [min_position, max_position]
ResolvePosition(updated, max_position) ==
    IF max_position >= updated /\ updated >= 0 THEN updated
    ELSE IF updated > max_position THEN max_position
    ELSE IF Abs(updated) <= max_position + 1 THEN max_position + 1 + updated
    ELSE 0

\* Mutant of MaxPosition: the instance is always counted as a member
MaxPositionLast(current, collection_count) == collection_count - 1

\* pre_save, lines 89-92: the highest position the instance can take
MaxPosition(current, collection_count) ==
    IF current = None THEN collection_count ELSE collection_count - 1

\* Mutant of InsertRequest: the cached position is not taken for the request
InsertRequestPending(current, updated) == updated

\* pre_save, lines 74-76: what an insert asks for, the pending value or, when
\* nothing was written, the cached position
InsertRequest(current, updated) ==
    IF updated = None THEN current ELSE updated

\* Mutant of Appended: no save takes the fast path
AppendedNever(add, updated, max_position) == FALSE

\* pre_save, line 96: a new instance that goes last
Appended(add, updated, max_position) ==
    add /\ (updated = -1 \/ updated >= max_position)

\* Mutant of remove_from_collection: the filter on the position is missing
remove_from_collection_all(s, k, current) == get_collection(s, k)

\* remove_from_collection: the rows it moves down by one, those of the
\* instance's collection above its position
remove_from_collection(s, k, current) ==
    {i \in get_collection(s, k) : s[i].pos > current}

\* Mutant of GapTargets: the row right above the deleted one is skipped
GapTargetsSkipNext(s, k, current) ==
    {i \in get_collection(s, k) : s[i].pos > current + 1}

\* update_on_delete: the rows of the sibling's collection above the deleted position
GapTargets(s, k, current) == {i \in get_collection(s, k) : s[i].pos > current}

\* Mutant of OpenSlotTargets: positions > updated
OpenSlotTargetsStrict(s, k, pk, updated) ==
    {i \in get_collection(s, k) \ {pk} : s[i].pos > updated}

\* update_on_save, created or collection changed: positions >= updated
OpenSlotTargets(s, k, pk, updated) ==
    {i \in get_collection(s, k) \ {pk} : s[i].pos >= updated}

\* Mutant of MoveRightTargets: positions in (current, updated)
MoveRightTargetsOpen(s, k, pk, current, updated) ==
    {i \in get_collection(s, k) \ {pk} : s[i].pos > current /\ s[i].pos < updated}

\* update_on_save, updated > current: positions in (current, updated]
MoveRightTargets(s, k, pk, current, updated) ==
    {i \in get_collection(s, k) \ {pk} : s[i].pos > current /\ s[i].pos <= updated}

\* Mutant of MoveLeftTargets: the row right below the old position is left out
MoveLeftTargetsShort(s, k, pk, current, updated) ==
    {i \in get_collection(s, k) \ {pk} :
        s[i].pos < current - 1 /\ s[i].pos >= updated}

\* Mutant of MoveLeftTargets: positions in (updated, current)
MoveLeftTargetsOpen(s, k, pk, current, updated) ==
    {i \in get_collection(s, k) \ {pk} : s[i].pos < current /\ s[i].pos > updated}

\* update_on_save, otherwise: positions in [updated, current)
MoveLeftTargets(s, k, pk, current, updated) ==
    {i \in get_collection(s, k) \ {pk} : s[i].pos < current /\ s[i].pos >= updated}

\* Mutant of SavedCache: the pending value is left in the cache
SavedCachePending(H, updated) == [H EXCEPT !.cur = updated]

\* update_on_save, line 242: the cache once the neighbours are shifted
SavedCache(H, updated) == [H EXCEPT !.cur = updated, !.upd = None]

\* Mutant of Refetched: a remembered sibling is taken to be still there
RefetchedBlind(s, next_sibling_pk) == next_sibling_pk # None

\* update_on_delete, lines 191-197: the remembered sibling is fetched again
Refetched(s, next_sibling_pk) ==
    next_sibling_pk # None /\ s[next_sibling_pk].exists

\* -------------------------------------------------------------------- init
Init ==
    /\ store = [i \in Pks |-> NoRow]
    /\ handle = [h \in Handles |-> NoHandle]
    /\ self_collection_changed = "none"
    /\ nextpk = 1
    /\ stamped = {}
    /\ issued = 0
    /\ pre = [i \in Pks |-> NoRow]
    /\ op = NoOp

Resting(h) == handle[h].pc \in {"none", "idle"}
Quiet == \A g \in Handles : Resting(g)

\* --------------------------------------------------------- instance actions
\* Model(collection=k, position=v): __init__ writes every field through __set__
New(h, k, v) ==
    /\ Resting(h)
    /\ handle' = [handle EXCEPT ![h] =
                    [Set([NoHandle EXCEPT !.pc = "idle", !.coll = k], v)
                        EXCEPT !.acc = [kind |-> "first", v |-> v, cur |-> None]]]
    /\ UNCHANGED <<store, self_collection_changed, nextpk, stamped, issued, pre, op>>

\* Model.objects.get(pk=i): a fresh instance built from the row
Load(h, i) ==
    /\ Resting(h)
    /\ store[i].exists
    /\ handle' = [handle EXCEPT ![h] =
                    [Set([NoHandle EXCEPT !.pc = "idle", !.pk = i,
                                          !.coll = store[i].coll], store[i].pos)
                        EXCEPT !.acc = [kind |-> "first", v |-> store[i].pos,
                                        cur |-> None]]]
    /\ UNCHANGED <<store, self_collection_changed, nextpk, stamped, issued, pre, op>>

\* instance.position = v
SetPosition(h, v) ==
    /\ handle[h].pc = "idle"
    /\ handle' = [handle EXCEPT ![h] =
                    [Set(@, v) EXCEPT !.afterSave = FALSE,
                                      !.acc = [kind |-> "write", v |-> v,
                                               cur |-> handle[h].cur]]]
    /\ UNCHANGED <<store, self_collection_changed, nextpk, stamped, issued, pre, op>>

\* instance.collection = k
SetCollection(h, k) ==
    /\ handle[h].pc = "idle"
    /\ handle[h].coll # k
    /\ handle' = [handle EXCEPT ![h] = [@ EXCEPT !.coll = k, !.afterSave = FALSE]]
    /\ UNCHANGED <<store, self_collection_changed, nextpk, stamped, issued, pre, op>>

\* -------------------------------------------------------------------- save
\* The ghost record of an operation: what the handle asked for when it started
StartOp(kind, h) ==
    [kind |-> kind, h |-> h, pk |-> handle[h].pk, coll |-> handle[h].coll,
     cur |-> handle[h].cur, upd |-> handle[h].upd,
     afterSave |-> handle[h].afterSave]

\* PositionField.pre_save(model_instance, add).  The host passes add = True
\* for an INSERT: an instance without a primary key, or the INSERT that
\* follows an UPDATE that matched no row.
pre_save(h) ==
    LET H == handle[h]
        first == H.pc = "idle"
        hostAdd == H.pk = None \/ H.pc = "reinsert"
        found == H.pk # None /\ store[H.pk].exists
        \* lines 49-60: the previous record and the comparison of the collection
        collection_changed == ~hostAdd /\ found /\ store[H.pk].coll # H.coll
        add == hostAdd \/ ~found
        \* lines 65-66: remove_from_collection(previous_instance)
        exitTargets ==
            IF collection_changed
               THEN remove_from_collection(store, store[H.pk].coll, store[H.pk].pos)
               ELSE {}
        s1 == BulkUpdate(store, exitTargets, -1)
        \* lines 69-77
        current1 == IF collection_changed THEN None ELSE H.cur
        updated2 == IF add THEN InsertRequest(current1, H.upd) ELSE H.upd
        current == IF add THEN None ELSE current1
        untouched == current # None /\ updated2 = None
        \* lines 85-93
        updated == IF updated2 = None THEN -1 ELSE updated2
        collection_count == count(s1, H.coll)
        max_position == MaxPosition(current, collection_count)
        appended == Appended(add, updated, max_position)
        position == ResolvePosition(updated, max_position)
    IN
    /\ H.pc \in {"idle", "reinsert"}
    /\ H.pk = None => nextpk <= MaxItems
    /\ self_collection_changed' = IF collection_changed THEN "true" ELSE "false"
    /\ store' = s1
    /\ stamped' = (IF first THEN {} ELSE stamped) \cup exitTargets
    /\ issued' = (IF first THEN 0 ELSE issued) + (IF collection_changed THEN 1 ELSE 0)
    /\ pre' = IF first THEN store ELSE pre
    /\ op' = IF first THEN StartOp("save", h) ELSE op
    /\ handle' = [handle EXCEPT ![h] =
         LET G == [H EXCEPT !.pc = "presaved", !.ins = hostAdd, !.acc = NoAcc,
                            !.asked = IF first THEN Get(H) ELSE H.asked,
                            !.decided = IF collection_changed THEN "true"
                                                              ELSE "false"]
         IN IF untouched
               THEN [G EXCEPT !.ret = current]
            ELSE IF appended
               THEN [G EXCEPT !.ret = max_position, !.cur = max_position,
                              !.upd = None]
               ELSE [G EXCEPT !.ret = position, !.cur = current,
                              !.upd = position]]
    /\ UNCHANGED nextpk

\* The host writes the row with the value pre_save returned: an UPDATE of the
\* row with the instance's primary key, or an INSERT.  An UPDATE that matches
\* no row is followed by an INSERT, for which pre_save runs again with add.
Persist(h) ==
    LET H == handle[h]
        pk == IF H.pk = None THEN nextpk ELSE H.pk
        row == [exists |-> TRUE, coll |-> H.coll, pos |-> H.ret]
    IN
    /\ H.pc = "presaved"
    /\ pk \in Pks
    /\ IF H.ins \/ store[pk].exists
          THEN /\ store' = [store EXCEPT ![pk] = row]
               /\ nextpk' = IF H.pk = None THEN nextpk + 1 ELSE nextpk
               /\ handle' = [handle EXCEPT ![h] =
                    [H EXCEPT !.pc = "written", !.pk = pk, !.created = H.ins]]
          ELSE /\ handle' = [handle EXCEPT ![h].pc = "reinsert"]
               /\ UNCHANGED <<store, nextpk>>
    /\ UNCHANGED <<self_collection_changed, stamped, issued, pre, op>>

\* update_on_save(sender, instance, created): the post_save signal
update_on_save(h) ==
    LET H == handle[h]
        collection_changed == self_collection_changed = "true"
        current == H.cur
        updated1 == H.upd
        skip == updated1 = None /\ ~collection_changed
        updated == IF updated1 = None /\ H.created THEN -1 ELSE updated1
        opens == H.created \/ collection_changed
        \* a comparison with None raises: filter(position__gte=None), None > int
        raises == IF opens THEN updated = None
                           ELSE updated = None \/ current = None
        targets ==
            IF opens THEN OpenSlotTargets(store, H.coll, H.pk, updated)
            ELSE IF updated > current
                    THEN MoveRightTargets(store, H.coll, H.pk, current, updated)
                    ELSE MoveLeftTargets(store, H.coll, H.pk, current, updated)
        delta == IF opens THEN 1 ELSE IF updated > current THEN -1 ELSE 1
    IN
    /\ H.pc = "written"
    /\ self_collection_changed' = "none"
    /\ IF skip
          THEN /\ handle' = [handle EXCEPT ![h].pc = "saved"]
               /\ UNCHANGED <<store, stamped, issued>>
       ELSE IF raises
          THEN /\ handle' = [handle EXCEPT ![h].pc = "error"]
               /\ UNCHANGED <<store, stamped, issued>>
          ELSE /\ store' = BulkUpdate(store, targets, delta)
               /\ stamped' = stamped \cup targets
               /\ issued' = issued + 1
               /\ handle' = [handle EXCEPT ![h] =
                    [SavedCache(H, updated) EXCEPT !.pc = "saved"]]
    /\ UNCHANGED <<nextpk, pre, op>>

\* ------------------------------------------------------------------ delete
\* get_next_sibling: the rows the lookup can return.  The queryset is sliced
\* with [0] under the model's default ordering, which the field does not set:
\* any row above the cached position can be the one returned.
get_next_sibling(H) ==
    IF H.cur = None THEN {}
    ELSE {i \in get_collection(store, H.coll) : store[i].pos > H.cur}

\* prepare_delete(sender, instance): the pre_delete signal
prepare_delete(h) ==
    LET H == handle[h]
    IN
    /\ H.pc = "idle"
    /\ H.pk # None
    /\ \E n \in (IF get_next_sibling(H) = {} THEN {None} ELSE get_next_sibling(H)) :
          handle' = [handle EXCEPT ![h] = [H EXCEPT !.pc = "predeleted", !.nsp = n,
                                                   !.sib = n]]
    /\ pre' = store
    /\ op' = StartOp("delete", h)
    /\ stamped' = {}
    /\ issued' = 0
    /\ UNCHANGED <<store, self_collection_changed, nextpk>>

\* The host removes the row with the instance's primary key
DeleteRow(h) ==
    LET H == handle[h]
    IN
    /\ H.pc = "predeleted"
    /\ store' = [store EXCEPT ![H.pk] = NoRow]
    /\ handle' = [handle EXCEPT ![h].pc = "removed"]
    /\ UNCHANGED <<self_collection_changed, nextpk, stamped, issued, pre, op>>

\* update_on_delete(sender, instance): the post_delete signal
update_on_delete(h) ==
    LET H == handle[h]
        refetched == Refetched(store, H.nsp)
        current == H.cur
        targets == GapTargets(store, store[H.nsp].coll, current)
    IN
    /\ H.pc = "removed"
    /\ IF ~refetched
          THEN /\ handle' = [handle EXCEPT ![h] = [H EXCEPT !.pc = "deleted", !.nsp = None]]
               /\ UNCHANGED <<store, stamped, issued>>
       ELSE IF current = None
          THEN /\ handle' = [handle EXCEPT ![h].pc = "error"]
               /\ UNCHANGED <<store, stamped, issued>>
          ELSE /\ store' = BulkUpdate(store, targets, -1)
               /\ stamped' = stamped \cup targets
               /\ issued' = issued + 1
               /\ handle' = [handle EXCEPT ![h] = [H EXCEPT !.pc = "deleted", !.nsp = None]]
    /\ UNCHANGED <<self_collection_changed, nextpk, pre, op>>

\* save() or delete() returns to its caller (or raises).  After a delete the
\* host clears the instance's primary key.
Return(h) ==
    LET H == handle[h]
    IN
    /\ H.pc \in {"saved", "deleted", "error"}
    /\ handle' = [handle EXCEPT ![h] =
         [H EXCEPT !.pc = "idle", !.ret = None, !.ins = FALSE, !.created = FALSE,
                   !.asked = None, !.decided = "none", !.sib = None,
                   !.afterSave = (H.pc = "saved"),
                   !.pk = IF H.pc = "deleted" THEN None ELSE H.pk]]
    /\ op' = NoOp
    /\ pre' = store
    /\ stamped' = {}
    /\ issued' = 0
    /\ UNCHANGED <<store, self_collection_changed, nextpk>>

\* ---------------------------------------------------------- specifications
\* The positions of the members of every collection are exactly 0 .. N-1
Dense(s) ==
    \A k \in Colls :
        {s[i].pos : i \in get_collection(s, k)} = 0..(count(s, k) - 1)

Values == Requests \cup {None}

\* The handle's cache and collection are those of the row it stands for
InSync(h) ==
    LET H == handle[h]
    IN H.pk # None /\ store[H.pk].exists /\ H.cur = store[H.pk].pos

SaveFresh(h) ==
    /\ Quiet
    /\ handle[h].pk # None => InSync(h)
    /\ pre_save(h)

DeleteFresh(h) ==
    /\ Quiet
    /\ InSync(h)
    /\ handle[h].coll = store[handle[h].pk].coll
    /\ prepare_delete(h)

Primary == CHOOSE h \in Handles : \A g \in Handles : h <= g

\* Operations run to completion one at a time, each on an instance that
\* reflects its row when the operation starts.
Next ==
    \E h \in {Primary} :
        \/ \E k \in Colls, v \in Values : New(h, k, v)
        \/ \E i \in Pks : Load(h, i)
        \/ \E v \in Values : SetPosition(h, v)
        \/ \E k \in Colls : SetCollection(h, k)
        \/ SaveFresh(h)
        \/ Persist(h)
        \/ update_on_save(h)
        \/ DeleteFresh(h)
        \/ DeleteRow(h)
        \/ update_on_delete(h)
        \/ Return(h)

Spec == Init /\ [][Next]_vars

\* Operations still run to completion one at a time, but the other instances
\* are not reloaded before they are saved: an instance loaded earlier is saved
\* as it is (no position written, collection as in its row) after operations
\* on other instances have completed.  Every operation starts from dense
\* collections: what is followed is the first operation that breaks them.
OthersResting(h) == \A g \in Handles \ {h} : Resting(g)

SaveUntouched(h) ==
    /\ OthersResting(h)
    /\ Dense(store)
    /\ handle[h].pk # None
    /\ store[handle[h].pk].exists
    /\ store[handle[h].pk].coll = handle[h].coll
    /\ handle[h].upd = None
    /\ pre_save(h)

NextStale ==
    \/ \E h \in {Primary} :
        \/ \E k \in Colls, v \in Values : Quiet /\ New(h, k, v)
        \/ \E k \in Colls : Quiet /\ SetCollection(h, k)
        \/ Dense(store) /\ SaveFresh(h)
        \/ Dense(store) /\ DeleteFresh(h)
    \/ \E h \in Handles :
        \/ \E i \in Pks : Quiet /\ Load(h, i)
        \/ SaveUntouched(h)
        \/ Persist(h)
        \/ update_on_save(h)
        \/ DeleteRow(h)
        \/ update_on_delete(h)
        \/ Return(h)

SpecStale == Init /\ [][NextStale]_vars

\* Saves that the host does not serialize: the instances are prepared while
\* nothing runs (every one is in sync with its row when the first save
\* starts, from dense collections), and the steps of the saves
\* of different instances interleave freely.  The signal handlers of one save
\* run in one thread, in order; nothing orders them against another thread's.
SaveRacing(h) ==
    /\ handle[h].pc = "idle" /\ OthersResting(h) =>
            /\ Dense(store)
            /\ \A g \in Handles : handle[g].pk # None => InSync(g)
    /\ pre_save(h)

NextRace ==
    \E h \in Handles :
        \/ \E k \in Colls, v \in Values : Quiet /\ Dense(store) /\ New(h, k, v)
        \/ \E i \in Pks : Quiet /\ Dense(store) /\ Load(h, i)
        \/ \E k \in Colls : Quiet /\ SetCollection(h, k)
        \/ SaveRacing(h)
        \/ Persist(h)
        \/ update_on_save(h)
        \/ Return(h)

SpecRace == Init /\ [][NextRace]_vars

\* A batch delete (QuerySet.delete(), a cascade): the host collects fresh
\* instances, sends pre_delete for every one of them, removes the rows, and
\* then sends post_delete for every one.  An instance joins the batch by its
\* prepare_delete; a batch of one is a plain delete.
InBatch(pcs) == {g \in Handles : handle[g].pc \in pcs}

BatchPrepare(h) ==
    /\ InBatch({"presaved", "reinsert", "written", "saved", "error"}) = {}
    /\ InBatch({"removed", "deleted"}) = {}
    /\ \A g \in InBatch({"predeleted"}) : handle[g].pk # handle[h].pk
    /\ Dense(store)
    /\ InSync(h)
    /\ handle[h].coll = store[handle[h].pk].coll
    /\ handle[h].upd = None
    /\ prepare_delete(h)

BatchRemove(h) == DeleteRow(h)

BatchAfter(h) ==
    /\ InBatch({"predeleted"}) = {}
    /\ update_on_delete(h)

BatchReturn(h) ==
    /\ InBatch({"predeleted", "removed"}) = {}
    /\ Return(h)

NextBatch ==
    \/ \E h \in {Primary} :
        \/ \E k \in Colls, v \in {None, 0} : Quiet /\ New(h, k, v)
        \/ Dense(store) /\ SaveFresh(h)
        \/ Persist(h)
        \/ update_on_save(h)
    \/ \E h \in Handles :
        \/ \E i \in Pks : Quiet /\ Dense(store) /\ Load(h, i)
        \/ BatchPrepare(h)
        \/ BatchRemove(h)
        \/ BatchAfter(h)
        \/ BatchReturn(h)

SpecBatch == Init /\ [][NextBatch]_vars

\* Operations run one at a time; an instance loaded earlier is saved after the
\* delete of its item (through another instance) has completed, with or
\* without a position or a collection written to it since.
RowGone(h) == handle[h].pk # None /\ ~store[handle[h].pk].exists

SaveGone(h) ==
    /\ Quiet
    /\ Dense(store)
    /\ RowGone(h)
    /\ pre_save(h)

\* The INSERT that follows the UPDATE that matched no row
Reinsert(h) ==
    /\ handle[h].pc = "reinsert"
    /\ pre_save(h)

NextGone ==
    \/ \E h \in {Primary} :
        \/ \E k \in Colls, v \in {None, 0} : Quiet /\ New(h, k, v)
        \/ Dense(store) /\ SaveFresh(h)
        \/ Dense(store) /\ DeleteFresh(h)
    \/ \E h \in Handles \ {Primary} :
        \/ \E v \in Requests : Quiet /\ RowGone(h) /\ SetPosition(h, v)
        \/ \E k \in Colls : Quiet /\ RowGone(h) /\ SetCollection(h, k)
        \/ SaveGone(h)
        \/ Reinsert(h)
    \/ \E h \in Handles :
        \/ \E i \in Pks : Quiet /\ Dense(store) /\ Load(h, i)
        \/ Persist(h)
        \/ update_on_save(h)
        \/ DeleteRow(h)
        \/ update_on_delete(h)
        \/ Return(h)

SpecGone == Init /\ [][NextGone]_vars

\* Operations run to completion one at a time on one instance, whose cached
\* position is that of its row; a delete may start with a position or a
\* collection written to the instance and not saved.
DeleteDirty(h) ==
    /\ Quiet
    /\ InSync(h)
    /\ prepare_delete(h)

NextDirty ==
    \E h \in {Primary} :
        \/ \E k \in Colls, v \in Values : Dense(store) /\ New(h, k, v)
        \/ \E i \in Pks : Dense(store) /\ Load(h, i)
        \/ \E v \in Values : SetPosition(h, v)
        \/ \E k \in Colls : SetCollection(h, k)
        \/ Dense(store) /\ SaveFresh(h)
        \/ Persist(h)
        \/ update_on_save(h)
        \/ Dense(store) /\ DeleteDirty(h)
        \/ DeleteRow(h)
        \/ update_on_delete(h)
        \/ Return(h)

SpecDirty == Init /\ [][NextDirty]_vars

\* ------------------------------------------------------------- properties
\* The running operation, of the given kind, has run its last step
Completed(kind) ==
    /\ op.kind = kind
    /\ handle[op.h].pc \in {"saved", "deleted"}

\* The item the running operation is about, once it has a primary key
Item == handle[op.h].pk

\* What the instance asked for when the operation started: the pending value,
\* or the value the instance was constructed with
Request == IF op.upd = None THEN op.cur ELSE op.upd

Creating == op.kind = "save" /\ op.pk = None
Updating == op.kind = "save" /\ op.pk # None

Row(k, p) == [exists |-> TRUE, coll |-> k, pos |-> p]

\* Every row but the operation's own is as it was when the operation started
OthersUnchanged == \A i \in Pks \ {Item} : store[i] = pre[i]

\* Of the rows other than the operation's own, exactly those in `moved` have
\* their position changed, by delta, and nothing else about any row changed
OthersShifted(moved, delta) ==
    \A i \in Pks \ {Item} :
        IF i \in moved
           THEN store[i] = [pre[i] EXCEPT !.pos = @ + delta]
           ELSE store[i] = pre[i]

AtRest == \A h \in Handles : handle[h].pc \in {"none", "idle", "saved", "deleted"}

\* C1: between operations and when an operation has completed, the positions
\* of the members of every collection are exactly 0 .. N-1.
C1_Density == AtRest => Dense(store)

\* A move to another collection has completed with both of its shifts
\* (exit of the old collection, slot opened in the new one)
C1_Witness ==
    /\ Completed("save")
    /\ issued = 2
    /\ \A k \in Colls : count(store, k) >= 1
    /\ \E i \in Pks \ {Item} : store[i].exists /\ store[i].pos # pre[i].pos

\* C2: a create with the position absent (-1) or >= the collection's member
\* count persists the item at that count, changes no other row and issues no
\* bulk update.
C2_Append ==
    (Completed("save") /\ Creating
        /\ (Request = -1 \/ Request >= count(pre, op.coll)))
    => /\ store[Item] = Row(op.coll, count(pre, op.coll))
       /\ OthersUnchanged
       /\ issued = 0
       /\ stamped = {}

C2_Witness ==
    /\ Completed("save") /\ Creating
    /\ Request > count(pre, op.coll)
    /\ count(pre, op.coll) >= 1
    /\ \E k \in Colls \ {op.coll} : count(pre, k) >= 1

\* C3: a create at p, 0 <= p <= count, persists the item at p and adds one to
\* the position of exactly the members of that collection that were at >= p.
C3_Insert ==
    (Completed("save") /\ Creating
        /\ 0 <= Request /\ Request <= count(pre, op.coll))
    => /\ store[Item] = Row(op.coll, Request)
       /\ OthersShifted({i \in get_collection(pre, op.coll) : pre[i].pos >= Request}, 1)

C3_Witness ==
    /\ Completed("save") /\ Creating
    /\ 0 < Request /\ Request < count(pre, op.coll)
    /\ store[Item].pos = Request

\* The resolution the specification states for request r and highest position M
ClaimedPosition(r, M) ==
    IF 0 <= r /\ r <= M THEN r
    ELSE IF r > M THEN M
    ELSE IF 0 - r <= M + 1 THEN M + 1 + r
    ELSE 0

\* The operation saves an existing row and keeps / changes its collection
Staying == Updating /\ pre[op.pk].exists /\ pre[op.pk].coll = op.coll
Leaving == Updating /\ pre[op.pk].exists /\ pre[op.pk].coll # op.coll

\* maxPosition as the specification states it: the target collection's member
\* count, less one for a member that stays in its collection
ClaimedMax ==
    IF Staying THEN count(pre, op.coll) - 1 ELSE count(pre, op.coll)

\* C4: the position persisted for a request r is r when 0 <= r <= M, M when
\* r > M, M + 1 + r when r < 0 and |r| <= M + 1, and 0 otherwise, so it lies in
\* 0 .. M.  Stated of every completed save: the position its row has, and the
\* resolution the code computes for every r and M in range; with 5 members
\* request -1 gives 4 and request -7 gives 0.
C4_Resolution ==
    Completed("save")
    => /\ (Creating \/ ((Staying \/ Leaving) /\ op.upd # None))
          => /\ store[Item].pos = ClaimedPosition(Request, ClaimedMax)
             /\ store[Item].pos \in 0..ClaimedMax
       /\ \A M \in 0..ResolveMax, r \in (0 - ResolveMax - 3)..(ResolveMax + 3) :
             ResolvePosition(r, M) = ClaimedPosition(r, M)
       /\ ResolvePosition(-1, 4) = 4
       /\ ResolvePosition(-7, 4) = 0

\* A negative request counted from the end, resolved for a member that stays
C4_Witness ==
    /\ Completed("save") /\ Staying
    /\ op.upd # None /\ op.upd < -1
    /\ store[Item].pos = ClaimedMax + 1 + op.upd
    /\ store[Item].pos # pre[Item].pos

\* C5: a move within a collection from c to u persists the item at u and
\* shifts exactly the other members in (c, u] down by one when u > c, and
\* exactly those in [u, c) up by one otherwise.
C5_MoveWithin ==
    (Completed("save") /\ Staying /\ op.upd # None)
    => LET c == pre[op.pk].pos
           u == store[Item].pos
           members == get_collection(pre, op.coll)
       IN /\ store[Item] = Row(op.coll, ClaimedPosition(op.upd, ClaimedMax))
          /\ IF u > c
                THEN OthersShifted({i \in members : c < pre[i].pos /\ pre[i].pos <= u}, -1)
                ELSE OthersShifted({i \in members : u <= pre[i].pos /\ pre[i].pos < c}, 1)

\* A move that shifts one member of the collection and leaves another alone
C5_Witness ==
    /\ Completed("save") /\ Staying /\ op.upd # None
    /\ \E i, j \in get_collection(pre, op.coll) \ {Item} :
          /\ store[i].pos # pre[i].pos
          /\ store[j].pos = pre[j].pos

\* C6: a move from position p of collection A to collection B closes the gap
\* in A (members above p go down by one), persists the item in B at B's
\* member count when no position was written, or at the resolved request q,
\* and shifts up by one exactly B's members at >= that position.
C6_CrossMove ==
    (Completed("save") /\ Leaving)
    => LET A == pre[op.pk].coll
           p == pre[op.pk].pos
           q == IF op.upd = None THEN count(pre, op.coll)
                ELSE ClaimedPosition(op.upd, count(pre, op.coll))
       IN /\ store[Item] = Row(op.coll, q)
          /\ \A i \in Pks \ {Item} :
                IF i \in get_collection(pre, A) /\ pre[i].pos > p
                   THEN store[i] = [pre[i] EXCEPT !.pos = @ - 1]
                ELSE IF i \in get_collection(pre, op.coll) /\ pre[i].pos >= q
                   THEN store[i] = [pre[i] EXCEPT !.pos = @ + 1]
                   ELSE store[i] = pre[i]

\* An appended move out of a collection that had a member above the item
C6_Witness ==
    /\ Completed("save") /\ Leaving /\ op.upd = None
    /\ \E i \in get_collection(pre, pre[op.pk].coll) : pre[i].pos > pre[op.pk].pos
    /\ count(pre, op.coll) >= 1
    /\ store[Item].pos = count(pre, op.coll)

\* C7: a delete of the item at position p removes its row, shifts down by one
\* exactly the members of its collection that were above p, and changes no
\* other row; a delete of the last member changes no other row.
C7_DeleteClosesGap ==
    Completed("delete")
    => LET A == pre[op.pk].coll
           p == pre[op.pk].pos
       IN /\ ~store[op.pk].exists
          /\ OthersShifted({i \in get_collection(pre, A) : pre[i].pos > p}, -1)
          /\ (p = count(pre, A) - 1 => OthersUnchanged)

\* A delete with a member below and a member above the deleted item
C7_Witness ==
    /\ Completed("delete")
    /\ \E i, j \in get_collection(pre, pre[op.pk].coll) :
          /\ pre[i].pos < pre[op.pk].pos /\ store[i].pos = pre[i].pos
          /\ pre[j].pos > pre[op.pk].pos /\ store[j].pos = pre[j].pos - 1

\* C8: a save of an existing item whose written position resolves to the
\* position it has, and a save that directly follows a completed save of the
\* same instance, change no row and stamp nothing.
C8_Idempotence ==
    (Completed("save") /\ Staying
        /\ \/ op.upd # None /\ ClaimedPosition(op.upd, ClaimedMax) = pre[op.pk].pos
           \/ op.afterSave)
    => /\ store = pre
       /\ stamped = {}

\* The last member of a collection asks for -1 or for an index past the end
C8_Witness ==
    /\ Completed("save") /\ Staying
    /\ op.upd # None /\ op.upd # pre[op.pk].pos
    /\ ClaimedPosition(op.upd, ClaimedMax) = pre[op.pk].pos
    /\ count(pre, op.coll) >= 2

\* C9: a save of an existing item whose position was not written and whose
\* collection is unchanged performs no reconciliation and changes no persisted
\* position, the item's own included, also when the item's row was shifted
\* by other operations after the instance was loaded.
C9_UntouchedSave ==
    (Completed("save") /\ Staying /\ op.upd = None)
    => /\ store = pre
       /\ issued = 0

\* C10: a write to the position accessor stores the value as it is (the
\* default -1 for an absent one) as the pending value and keeps the cached
\* position; the first write on an instance (construction, load) sets the
\* cached position and no pending value; a read returns the pending value
\* when one is set and the cached position otherwise; and while instances are
\* only constructed, loaded, written and read, no row changes and no bulk
\* update is issued.
C10_Accessors ==
    /\ \A h \in Handles :
          LET H == handle[h]
              written == IF H.acc.v = None THEN -1 ELSE H.acc.v
          IN /\ H.acc.kind = "write"
                => /\ H.upd = written
                   /\ H.cur = H.acc.cur
                   /\ Get(H) = written
             /\ H.acc.kind = "first"
                => /\ H.cur = written
                   /\ H.upd = None
                   /\ Get(H) = written
             /\ H.hasCache
                => Get(H) = (IF H.upd # None THEN H.upd ELSE H.cur)
    /\ Quiet => (store = pre /\ stamped = {} /\ issued = 0)

\* An instance of a row holds a pending value that is no position of its
\* collection, and its row is where it was
C10_Witness ==
    \E h \in Handles :
        /\ handle[h].pc = "idle"
        /\ handle[h].pk # None
        /\ handle[h].upd # None
        /\ handle[h].acc.kind = "write"
        /\ handle[h].upd < 0 - 1
        /\ store[handle[h].pk].exists
        /\ store[handle[h].pk].pos = handle[h].cur
        /\ Get(handle[h]) = handle[h].upd

\* Two creates into collection k have both run pre_save before either row was
\* written, and both have completed: h started last (the ghost record is
\* its), g's row was not there yet when h started.
RacedCreates(g, h, k) ==
    /\ g # h /\ op.kind = "save" /\ op.h = h
    /\ handle[g].pc = "saved" /\ handle[h].pc = "saved"
    /\ handle[g].created /\ handle[h].created
    /\ op.pk = None
    /\ handle[g].coll = k /\ handle[h].coll = k
    /\ ~pre[handle[g].pk].exists

\* The instance asked for the default position or for one past the end
AskedLast(h, k) ==
    handle[h].asked = Default \/ handle[h].asked >= count(pre, k)

\* C11: two creates into one collection that both read the member count
\* before either row is written, each asking for the end of the collection,
\* complete with both items at the same position (the count they read): the
\* collection's positions are not 0 .. N-1, and no bulk update was issued by
\* either save that could have repaired it.
C11_Race ==
    \A g \in Handles, h \in Handles, k \in Colls :
        RacedCreates(g, h, k) /\ AskedLast(g, k) /\ AskedLast(h, k) =>
            /\ store[handle[g].pk].pos = count(pre, k)
            /\ store[handle[h].pk].pos = count(pre, k)
            /\ ~Dense(store)
            /\ issued = 0

\* Both raced creates have completed and the collection has a duplicate
C11_Witness ==
    \E g \in Handles, h \in Handles, k \in Colls :
        /\ RacedCreates(g, h, k) /\ AskedLast(g, k) /\ AskedLast(h, k)
        /\ count(pre, k) > 0
        /\ ~Dense(store)

\* C12: when a save has completed (append, insert, move within a collection,
\* move to another collection, or nothing written), the instance's cache is
\* (the position of its row, no pending value): the accessor returns the
\* persisted position, which lies in 0 .. N-1, whatever was asked for.
C12_CacheAfterSave ==
    Completed("save") =>
        LET H == handle[op.h]
        IN /\ store[Item].exists
           /\ H.cur = store[Item].pos
           /\ H.upd = None
           /\ Get(H) = store[Item].pos
           /\ Get(H) \in 0..(count(store, H.coll) - 1)

\* A save whose request was out of range has completed after its
\* reconciliation shifted other rows
C12_Witness ==
    /\ Completed("save")
    /\ Request \notin 0..(count(store, handle[op.h].coll) - 1)
    /\ Request # Default
    /\ issued > 0
    /\ store[Item].pos # Request

\* The rows, other than the operation's own, whose position is not what it
\* was when the operation started
Shifted == {i \in Pks \ {Item} : pre[i].exists /\ store[i].pos # pre[i].pos}

\* C13: when a save or a delete has completed, the rows stamped by the
\* engine's bulk updates (the exit from the old collection, the post-save
\* reconciliation, the closing of the gap) are exactly the other rows whose
\* position changed; a row that was not shifted, in the same or in another
\* collection, is not stamped, and neither is the operation's own row.
C13_Stamping ==
    Completed("save") \/ Completed("delete") =>
        /\ stamped = Shifted
        /\ Item \notin stamped
        /\ \A i \in Pks \ stamped : i # Item => store[i] = pre[i]

\* An operation has completed that shifted and stamped one row and left
\* another row alone
C13_Witness ==
    /\ Completed("save") \/ Completed("delete")
    /\ stamped # {}
    /\ \E i \in Pks \ (stamped \cup {Item}) : store[i].exists

\* The step just taken is the update_on_delete of instance h
AfterDeleteStep(h) ==
    handle[h].pc = "removed" /\ handle'[h].pc # "removed"

\* C14: every update_on_delete ends without an error and with the remembered
\* sibling reset to none; when prepare_delete remembered no sibling, or the
\* remembered sibling's row is gone by then, it changes no row, stamps
\* nothing and issues no update.
C14_SiblingMiss ==
    [][\A h \in Handles :
          AfterDeleteStep(h) =>
             /\ handle'[h].pc = "deleted"
             /\ handle'[h].nsp = None
             /\ (handle[h].nsp = None \/ ~store[handle[h].nsp].exists) =>
                   /\ store' = store
                   /\ stamped' = stamped
                   /\ issued' = issued]_vars

\* A batch delete has run all its update_on_delete steps; one instance had
\* remembered a sibling that was deleted in the same batch, another instance
\* had found no sibling
C14_Witness ==
    \E g \in Handles, h \in Handles :
        /\ handle[g].pc = "deleted" /\ handle[h].pc = "deleted"
        /\ handle[h].sib = handle[g].pk
        /\ handle[g].sib = None
        /\ handle[h].nsp = None /\ handle[g].nsp = None

\* The operation saves an instance that has a primary key but no row
Gone == Updating /\ ~pre[op.pk].exists

\* C15: a save of an instance whose primary key has no row raises no error
\* and is resolved as an insert: the highest position is the member count of
\* its collection, the request is the pending value or, when nothing was
\* written, the cached position; once update_on_save has run with created,
\* the item is at the resolved position, the members at or above it have
\* moved up by one, and every collection's positions are 0 .. N-1.
C15_NotFound ==
    /\ op.kind = "save" /\ Gone => handle[op.h].pc # "error"
    /\ Completed("save") /\ Gone =>
          LET p == ClaimedPosition(Request, count(pre, op.coll))
          IN /\ handle[op.h].created
             /\ store[Item] = Row(op.coll, p)
             /\ OthersShifted({i \in get_collection(pre, op.coll) :
                                  pre[i].pos >= p}, 1)
             /\ Dense(store)

\* The save of an instance without a row has completed in the middle of a
\* collection, from the cached position (nothing written)
C15_Witness ==
    /\ Completed("save") /\ Gone
    /\ op.upd = None
    /\ 0 < store[Item].pos
    /\ store[Item].pos < count(pre, op.coll)
    /\ store[Item].pos = op.cur

\* A batch delete of two or more members of one collection has run every
\* update_on_delete
BatchDone ==
    /\ InBatch({"predeleted", "removed"}) = {}
    /\ \E g \in InBatch({"deleted"}), h \in InBatch({"deleted"}) :
          g # h /\ pre[handle[g].pk].coll = pre[handle[h].pk].coll

\* C16: once a batch delete of two or more members of one collection has run
\* all its update_on_delete steps, the positions of the remaining members of
\* every collection are exactly 0 .. N-1.
C16_BatchDelete == BatchDone => Dense(store)

\* C17: when an instance's row is written and its update_on_save is the next
\* step of its save, the flag on the field object is the collection_changed
\* its own pre_save computed (none, the value update_on_save leaves, counts
\* as false), whatever steps of other saves ran in between;
\* and no update_on_save ends in the error of a comparison with an absent
\* value.
C17_FlagPairing ==
    \A h \in Handles :
        /\ handle[h].pc = "written" =>
              ((self_collection_changed = "true") <=> (handle[h].decided = "true"))
        /\ handle[h].pc # "error"

\* C18: a delete through an instance that carries an unsaved pending position
\* or an unsaved change of its collection moves down by one exactly the
\* members of the collection the row was in that were above the row, and
\* changes no other row, in that or in any other collection.
C18_DeleteDirty ==
    (Completed("delete") /\ (op.upd # None \/ op.coll # pre[op.pk].coll)) =>
        OthersShifted({i \in get_collection(pre, pre[op.pk].coll) :
                          pre[i].pos > pre[op.pk].pos}, 0 - 1)

\* C19: a completed create, move within a collection, move to another
\* collection or delete keeps the order of the other items: two items other
\* than the operation's own that were in one collection with x before y are
\* still in that collection with x before y.
C19_OrderPreserved ==
    Completed("save") \/ Completed("delete") =>
        \A x \in Pks \ {Item}, y \in Pks \ {Item} :
            (/\ pre[x].exists /\ pre[y].exists
             /\ pre[x].coll = pre[y].coll
             /\ pre[x].pos < pre[y].pos)
            => /\ store[x].exists /\ store[y].exists
               /\ store[x].coll = pre[x].coll /\ store[y].coll = pre[y].coll
               /\ store[x].pos < store[y].pos

\* A move within a collection has completed that shifted both of the other
\* two members
C19_Witness ==
    /\ Completed("save") /\ Staying
    /\ \E x \in Pks \ {Item}, y \in Pks \ {Item} :
          /\ pre[x].exists /\ pre[y].exists
          /\ pre[x].coll = pre[y].coll
          /\ pre[x].pos < pre[y].pos
          /\ store[x].pos # pre[x].pos /\ store[y].pos # pre[y].pos
          /\ store[x].pos < store[y].pos

TypeOK ==
    /\ nextpk \in 1..(MaxItems + 1)
    /\ self_collection_changed \in {"none", "false", "true"}
    /\ issued \in 0..2

====
